---------------------------- MODULE Spec2Model ----------------------------
(***************************************************************************)
(* Python_Chess.py: material evaluator, minimax with alpha-beta pruning    *)
(* and the best-move selector, run as an explicit call stack over one      *)
(* mutable board.                                                          *)
(*                                                                         *)
(* The rules engine (python-chess) is an external library.  It is modelled *)
(* by a material-only game that offers the interface the program uses:     *)
(* an ordered legal-move list, push/pop over a move stack, a side to move, *)
(* piece counts per kind and side, and a game-over test that is true when  *)
(* there is no legal move and may be true while legal moves remain.        *)
(***************************************************************************)
EXTENDS Integers, Sequences, FiniteSets, TLC

\* Total number of non-king pieces on the board drawn for the root position.
MaxPieces == 3
\* Largest search depth handed to minimax / get_best_move (the GUI uses 3).
MaxDepth == 3
\* Interpreter limit on nested calls (frames of minimax and get_best_move).
RecursionLimit == 5

\* float('inf'): larger than every material score of a modelled board.
Inf == 1000

WHITE == TRUE
BLACK == FALSE

\* Iteration order of the piece_values dict.
PieceKinds == <<"PAWN", "KNIGHT", "BISHOP", "ROOK", "QUEEN", "KING">>
KindSet == {PieceKinds[i] : i \in 1..Len(PieceKinds)}
NonKing == SubSeq(PieceKinds, 1, 5)

piece_values(kind) ==
    CASE kind = "PAWN"   -> 1
      [] kind = "KNIGHT" -> 3
      [] kind = "BISHOP" -> 3
      [] kind = "ROOK"   -> 5
      [] kind = "QUEEN"  -> 9
      [] kind = "KING"   -> 0

Max(a, b) == IF a >= b THEN a ELSE b
Min(a, b) == IF a <= b THEN a ELSE b

VARIABLES
    board,    \* the one chess.Board all frames share: [w, b, turn, move_stack]
    stack,    \* call stack, innermost frame last
    ret,      \* value returned by the frame that returned last
    phase,    \* "idle", "running", "done" (returned normally), "raised"
    call,     \* the top-level call: [fn, depth, maximizing_player]
    root,     \* the board as it was when the top-level call was made
    npush,    \* number of board.push calls made so far
    npop,     \* number of board.pop calls made so far
    ncalls    \* number of calls of minimax made so far

vars == <<board, stack, ret, phase, call, root, npush, npop, ncalls>>

----------------------------------------------------------------------------
(* The board interface                                                     *)

\* len(board.pieces(piece, color))
pieces(b, kind, color) == IF color = WHITE THEN b.w[kind] ELSE b.b[kind]

HasAttacker(b, color) == \E i \in 1..5 : pieces(b, NonKing[i], color) > 0

RECURSIVE CaptureMoves(_, _)
CaptureMoves(b, i) ==
    IF i > 5 THEN <<>>
    ELSE (IF pieces(b, NonKing[i], ~b.turn) > 0 THEN <<NonKing[i]>> ELSE <<>>)
         \o CaptureMoves(b, i + 1)

\* board.legal_moves, in the engine's (stable) enumeration order: a capture
\* of each enemy kind on the board, then a quiet move.  A side with a bare
\* king has no legal move.
legal_moves(b) ==
    IF HasAttacker(b, b.turn) THEN CaptureMoves(b, 1) \o <<"QUIET">> ELSE <<>>

insufficient_material(b) ==
    /\ \A k \in {"PAWN", "ROOK", "QUEEN"} : b.w[k] = 0 /\ b.b[k] = 0
    /\ b.w["KNIGHT"] + b.w["BISHOP"] + b.b["KNIGHT"] + b.b["BISHOP"] <= 1

\* board.is_game_over(): no legal move (checkmate, stalemate) or a draw
\* rule that ends the game while legal moves remain.
is_game_over(b) == legal_moves(b) = <<>> \/ insufficient_material(b)

\* board.push(move)
push(b, move) ==
    [w |-> IF b.turn = BLACK /\ move # "QUIET"
           THEN [b.w EXCEPT ![move] = @ - 1] ELSE b.w,
     b |-> IF b.turn = WHITE /\ move # "QUIET"
           THEN [b.b EXCEPT ![move] = @ - 1] ELSE b.b,
     turn |-> ~b.turn,
     move_stack |-> Append(b.move_stack, move)]

\* board.pop()
pop(b) ==
    LET n == Len(b.move_stack)
        move == b.move_stack[n]
    IN  [w |-> IF b.turn = WHITE /\ move # "QUIET"
               THEN [b.w EXCEPT ![move] = @ + 1] ELSE b.w,
         b |-> IF b.turn = BLACK /\ move # "QUIET"
               THEN [b.b EXCEPT ![move] = @ + 1] ELSE b.b,
         turn |-> ~b.turn,
         move_stack |-> SubSeq(b.move_stack, 1, n - 1)]

----------------------------------------------------------------------------
(* evaluate_board                                                          *)

RECURSIVE evaluate_loop(_, _, _)
evaluate_loop(b, i, score) ==
    IF i > Len(PieceKinds) THEN score
    ELSE LET piece == PieceKinds[i]
             s1 == score + pieces(b, piece, WHITE) * piece_values(piece)
             s2 == s1 - pieces(b, piece, BLACK) * piece_values(piece)
         IN  evaluate_loop(b, i + 1, s2)

\* The position with the two sides' pieces exchanged.
Mirror(b) == [b EXCEPT !.w = b.b, !.b = b.w]

\* Sign slip: Black's material counted as positive.
evaluate_board_swapped(b) == evaluate_loop(Mirror(b), 1, 0)

evaluate_board(b) == evaluate_loop(b, 1, 0)

----------------------------------------------------------------------------
(* Frames                                                                  *)

\* One activation record of minimax or get_best_move.  entry, np, nq and
\* scores are history fields: the board and the push/pop counts at the
\* moment of the call, and (get_best_move) the value searched for each
\* root move so far.
Frame(fn, depth, alpha, beta, maximizing_player) ==
    [fn |-> fn, depth |-> depth, alpha |-> alpha, beta |-> beta,
     maximizing_player |-> maximizing_player,
     best |-> 0, best_move |-> "None", moves |-> <<>>, i |-> 1,
     pc |-> "entry", scores |-> <<>>,
     entry |-> board, np |-> npush, nq |-> npop]

Top == stack[Len(stack)]
Front(s) == SubSeq(s, 1, Len(s) - 1)
SetTop(f) == [stack EXCEPT ![Len(stack)] = f]

Running(fn, pc) ==
    /\ phase = "running"
    /\ stack # <<>>
    /\ Top.fn = fn
    /\ Top.pc = pc

\* `return value`: the frame is dropped and the caller, if any, resumes.
Return(value) ==
    /\ stack' = Front(stack)
    /\ ret' = value
    /\ phase' = IF Len(stack) = 1 THEN "done" ELSE "running"

\* The caller's frame while the callee runs, and the callee's frame above it.
CallFrom(caller, callee) == Append(SetTop([caller EXCEPT !.pc = "called"]), callee)

----------------------------------------------------------------------------
(* minimax                                                                 *)

\* Slip: the game-over test left out of the base case.
IsBaseCase_DepthOnly(depth, b) == depth = 0

\* line 26: if depth == 0 or board.is_game_over()
IsBaseCase(depth, b) == depth = 0 \/ is_game_over(b)

\* Slip: the comparison turned around.
Cutoff_Inverted(alpha, beta) == alpha <= beta

\* Slip: strict comparison, no cutoff when beta = alpha.
Cutoff_Strict(alpha, beta) == beta < alpha

\* lines 37 and 48: if beta <= alpha: break
Cutoff(alpha, beta) == beta <= alpha

\* lines 26-27: return evaluate_board(board)
MinimaxBase ==
    /\ Running("minimax", "entry")
    /\ IsBaseCase(Top.depth, board)
    /\ Return(evaluate_board(board))
    /\ UNCHANGED <<board, call, root, npush, npop, ncalls>>

\* lines 29-31 and 40-42: max_eval = -inf / min_eval = inf, start the loop
MinimaxEnter ==
    /\ Running("minimax", "entry")
    /\ ~IsBaseCase(Top.depth, board)
    /\ stack' = SetTop([Top EXCEPT
                          !.best = IF Top.maximizing_player THEN -Inf ELSE Inf,
                          !.moves = legal_moves(board),
                          !.i = 1,
                          !.pc = "loop"])
    /\ UNCHANGED <<board, ret, phase, call, root, npush, npop, ncalls>>

\* lines 32-33 and 43-44: board.push(move); minimax(board, depth - 1, ...)
MinimaxPushCall ==
    /\ Running("minimax", "loop")
    /\ Top.i <= Len(Top.moves)
    /\ Len(stack) < RecursionLimit
    /\ board' = push(board, Top.moves[Top.i])
    /\ npush' = npush + 1
    /\ ncalls' = ncalls + 1
    /\ stack' = CallFrom(Top,
                    [Frame("minimax", Top.depth - 1, Top.alpha, Top.beta,
                           ~Top.maximizing_player)
                     EXCEPT !.entry = board', !.np = npush'])
    /\ UNCHANGED <<ret, phase, call, root, npop>>

\* lines 32-33 and 43-44 when the interpreter refuses another frame: the
\* call raises RecursionError after board.push has run.  No frame of
\* minimax or get_best_move has a handler or a finally clause, so the
\* error leaves them all and no board.pop runs.
MinimaxCallRaises ==
    /\ Running("minimax", "loop")
    /\ Top.i <= Len(Top.moves)
    /\ Len(stack) >= RecursionLimit
    /\ board' = push(board, Top.moves[Top.i])
    /\ npush' = npush + 1
    /\ stack' = <<>>
    /\ phase' = "raised"
    /\ ret' = "RecursionError"
    /\ UNCHANGED <<call, root, npop, ncalls>>

\* Slip: board.pop() left out after the recursive call.
MinimaxFold_NoPop ==
    /\ Running("minimax", "called")
    /\ stack' = SetTop(
         IF Top.maximizing_player
         THEN [Top EXCEPT !.best = Max(Top.best, ret),
                          !.alpha = Max(Top.alpha, ret),
                          !.pc = "check"]
         ELSE [Top EXCEPT !.best = Min(Top.best, ret),
                          !.beta = Min(Top.beta, ret),
                          !.pc = "check"])
    /\ UNCHANGED <<board, ret, phase, call, root, npush, npop, ncalls>>

\* lines 34-36 and 45-47: board.pop(); fold eval into the running best and
\* into alpha (maximizing) or beta (minimizing)
MinimaxFold ==
    /\ Running("minimax", "called")
    /\ board' = pop(board)
    /\ npop' = npop + 1
    /\ stack' = SetTop(
         IF Top.maximizing_player
         THEN [Top EXCEPT !.best = Max(Top.best, ret),
                          !.alpha = Max(Top.alpha, ret),
                          !.pc = "check"]
         ELSE [Top EXCEPT !.best = Min(Top.best, ret),
                          !.beta = Min(Top.beta, ret),
                          !.pc = "check"])
    /\ UNCHANGED <<ret, phase, call, root, npush, ncalls>>

\* lines 37-39 and 48-50: break, then return max_eval / min_eval
MinimaxBreak ==
    /\ Running("minimax", "check")
    /\ Cutoff(Top.alpha, Top.beta)
    /\ Return(Top.best)
    /\ UNCHANGED <<board, call, root, npush, npop, ncalls>>

\* lines 37 and 48, condition false: on to the next move
MinimaxNext ==
    /\ Running("minimax", "check")
    /\ ~Cutoff(Top.alpha, Top.beta)
    /\ stack' = SetTop([Top EXCEPT !.i = @ + 1, !.pc = "loop"])
    /\ UNCHANGED <<board, ret, phase, call, root, npush, npop, ncalls>>

\* lines 39 and 50 after the last move: return max_eval / min_eval
MinimaxLoopEnd ==
    /\ Running("minimax", "loop")
    /\ Top.i > Len(Top.moves)
    /\ Return(Top.best)
    /\ UNCHANGED <<board, call, root, npush, npop, ncalls>>

----------------------------------------------------------------------------
(* get_best_move                                                           *)

\* Slip: the running best starts at 0 instead of -inf / inf.
InitialBest_Zero(turn) == 0

\* line 56: best_value = float('-inf') if board.turn else float('inf')
InitialBest(turn) == IF turn THEN -Inf ELSE Inf

\* line 59, last argument: `not board.turn`, read after board.push(move)
RootChildRole(pushed) == ~pushed.turn

\* Slip: non-strict comparisons, a later equal move replaces the earlier.
Improves_NonStrict(turn, board_value, best_value) ==
    \/ turn /\ board_value >= best_value
    \/ ~turn /\ board_value <= best_value

\* lines 61 and 64: the move replaces the best one so far
Improves(turn, board_value, best_value) ==
    \/ turn /\ board_value > best_value
    \/ ~turn /\ board_value < best_value

\* lines 55-57
GbmEnter ==
    /\ Running("get_best_move", "entry")
    /\ stack' = SetTop([Top EXCEPT
                          !.best_move = "None",
                          !.best = InitialBest(board.turn),
                          !.moves = legal_moves(board),
                          !.i = 1,
                          !.pc = "loop"])
    /\ UNCHANGED <<board, ret, phase, call, root, npush, npop, ncalls>>

\* lines 58-59: board.push(move); minimax(board, depth - 1, -inf, inf, not board.turn)
GbmPushCall ==
    /\ Running("get_best_move", "loop")
    /\ Top.i <= Len(Top.moves)
    /\ board' = push(board, Top.moves[Top.i])
    /\ npush' = npush + 1
    /\ ncalls' = ncalls + 1
    /\ stack' = CallFrom(Top,
                    [Frame("minimax", Top.depth - 1, -Inf, Inf,
                           RootChildRole(board'))
                     EXCEPT !.entry = board', !.np = npush'])
    /\ UNCHANGED <<ret, phase, call, root, npop>>

\* lines 60-66: board.pop(); keep the move on strict improvement
GbmFold ==
    /\ Running("get_best_move", "called")
    /\ board' = pop(board)
    /\ npop' = npop + 1
    /\ stack' = SetTop(
         IF Improves(board'.turn, ret, Top.best)
         THEN [Top EXCEPT !.best = ret,
                          !.best_move = Top.moves[Top.i],
                          !.scores = Append(@, ret),
                          !.i = @ + 1,
                          !.pc = "loop"]
         ELSE [Top EXCEPT !.scores = Append(@, ret),
                          !.i = @ + 1,
                          !.pc = "loop"])
    /\ UNCHANGED <<ret, phase, call, root, npush, ncalls>>

\* line 67: return best_move
GbmReturn ==
    /\ Running("get_best_move", "loop")
    /\ Top.i > Len(Top.moves)
    /\ Return(Top.best_move)
    /\ UNCHANGED <<board, call, root, npush, npop, ncalls>>

----------------------------------------------------------------------------
(* Top-level calls and the specification                                   *)

Depths == 0..MaxDepth

\* minimax(board, depth, -inf, inf, maximizing_player) called on the board
CallMinimax ==
    /\ phase = "idle"
    /\ \E depth \in Depths, m \in BOOLEAN :
         /\ call' = [fn |-> "minimax", depth |-> depth, maximizing_player |-> m]
         /\ stack' = <<Frame("minimax", depth, -Inf, Inf, m)>>
    /\ ncalls' = ncalls + 1
    /\ phase' = "running"
    /\ UNCHANGED <<board, ret, root, npush, npop>>

\* get_best_move(board, depth) called on the board (play_ai_turn, line 127)
CallGetBestMove ==
    /\ phase = "idle"
    /\ \E depth \in Depths :
         /\ call' = [fn |-> "get_best_move", depth |-> depth,
                     maximizing_player |-> board.turn]
         /\ stack' = <<Frame("get_best_move", depth, -Inf, Inf, board.turn)>>
    /\ phase' = "running"
    /\ UNCHANGED <<board, ret, root, npush, npop, ncalls>>

Slots == 1..10
SlotColor(s) == IF s <= 5 THEN WHITE ELSE BLACK
SlotKind(s) == NonKing[((s - 1) % 5) + 1]

\* The ways to put at most MaxPieces non-king pieces on the board.
Placements ==
    UNION { { p \in [1..n -> Slots] : \A j \in 1..(n - 1) : p[j] <= p[j + 1] }
            : n \in 0..MaxPieces }

Count(p, color, kind) ==
    IF kind = "KING" THEN 1
    ELSE Cardinality({ j \in DOMAIN p :
                         SlotColor(p[j]) = color /\ SlotKind(p[j]) = kind })

BoardOf(p, turn) ==
    [w |-> [k \in KindSet |-> Count(p, WHITE, k)],
     b |-> [k \in KindSet |-> Count(p, BLACK, k)],
     turn |-> turn,
     move_stack |-> <<>>]

RootBoards == { BoardOf(p, t) : p \in Placements, t \in BOOLEAN }

Init ==
    /\ board \in RootBoards
    /\ root = board
    /\ stack = <<>>
    /\ ret = "None"
    /\ phase = "idle"
    /\ call = [fn |-> "none", depth |-> 0, maximizing_player |-> FALSE]
    /\ npush = 0
    /\ npop = 0
    /\ ncalls = 0

Next ==
    \/ CallMinimax
    \/ CallGetBestMove
    \/ MinimaxBase
    \/ MinimaxEnter
    \/ MinimaxPushCall
    \/ MinimaxCallRaises
    \/ MinimaxFold
    \/ MinimaxBreak
    \/ MinimaxNext
    \/ MinimaxLoopEnd
    \/ GbmEnter
    \/ GbmPushCall
    \/ GbmFold
    \/ GbmReturn

Spec == Init /\ [][Next]_vars

----------------------------------------------------------------------------
(* Reference definitions used by the properties                            *)

RECURSIVE PlainMinimax(_, _, _)
RECURSIVE PlainFold(_, _, _, _, _)
\* Minimax without alpha, beta or any cutoff: same move order, same base
\* case, same alternation of roles.
PlainMinimax(b, depth, maximizing) ==
    IF depth = 0 \/ is_game_over(b) THEN evaluate_board(b)
    ELSE PlainFold(b, depth, maximizing, 1, IF maximizing THEN -Inf ELSE Inf)

PlainFold(b, depth, maximizing, i, acc) ==
    IF i > Len(legal_moves(b)) THEN acc
    ELSE LET v == PlainMinimax(push(b, legal_moves(b)[i]), depth - 1, ~maximizing)
         IN  PlainFold(b, depth, maximizing, i + 1,
                       IF maximizing THEN Max(acc, v) ELSE Min(acc, v))

RECURSIVE PlainCalls(_, _)
RECURSIVE PlainCallsFrom(_, _, _)
\* Number of calls plain minimax makes on the tree below b, b's included.
PlainCalls(b, depth) ==
    IF depth = 0 \/ is_game_over(b) THEN 1 ELSE 1 + PlainCallsFrom(b, depth, 1)

PlainCallsFrom(b, depth, i) ==
    IF i > Len(legal_moves(b)) THEN 0
    ELSE PlainCalls(push(b, legal_moves(b)[i]), depth - 1)
         + PlainCallsFrom(b, depth, i + 1)

\* Sum over the piece kinds of value * (White count - Black count).
MaterialBalance(b) ==
      1 * (b.w["PAWN"] - b.b["PAWN"])
    + 3 * (b.w["KNIGHT"] - b.b["KNIGHT"])
    + 3 * (b.w["BISHOP"] - b.b["BISHOP"])
    + 5 * (b.w["ROOK"] - b.b["ROOK"])
    + 9 * (b.w["QUEEN"] - b.b["QUEEN"])
    + 0 * (b.w["KING"] - b.b["KING"])

Done(fn) == phase = "done" /\ call.fn = fn

\* A frame returns to its caller (or to the program) with a value.
ReturnStep ==
    /\ phase = "running"
    /\ stack # <<>>
    /\ Len(stack') = Len(stack) - 1
    /\ phase' # "raised"

----------------------------------------------------------------------------
(* Properties                                                              *)

\* C1 (pruning correctness): a call minimax(board, depth, -inf, +inf, m)
\* with depth >= 0 returns the score plain minimax returns over the same
\* tree, both when the program calls it directly and when get_best_move
\* calls it on a root move's position.
C1_PruningCorrectness ==
    /\ Done("minimax") =>
         ret = PlainMinimax(root, call.depth, call.maximizing_player)
    /\ (Running("get_best_move", "called") /\ Top.depth >= 1) =>
         ret = PlainMinimax(board, Top.depth - 1, RootChildRole(board))

\* C1 witness: a direct call has returned a nonzero score after visiting
\* fewer positions than plain minimax visits (a cutoff happened).
C1_Witness ==
    /\ Done("minimax")
    /\ ncalls < PlainCalls(root, call.depth)
    /\ ret # 0
    /\ ret = PlainMinimax(root, call.depth, call.maximizing_player)

\* C6 (base case): a minimax frame entered with depth = 0 or on a game-over
\* board returns evaluate_board(board) in its next step with no push, no pop
\* and no further call; a direct call of that kind ends with the material
\* score of the root after exactly one call and no push or pop.
C6_BaseCase ==
    [][ /\ (Running("minimax", "entry") /\ (Top.depth = 0 \/ is_game_over(board))) =>
             /\ stack' = Front(stack)
             /\ ret' = evaluate_board(board)
             /\ ret' = MaterialBalance(board)
             /\ board' = board
             /\ npush' = npush /\ npop' = npop /\ ncalls' = ncalls
        /\ (/\ phase' = "done"
            /\ call.fn = "minimax"
            /\ (call.depth = 0 \/ is_game_over(root))) =>
             /\ ret' = evaluate_board(root)
             /\ npush' = 0 /\ npop' = 0 /\ ncalls' = 1
      ]_vars

\* C6 witness: a direct call with depth > 0 on a game-over board that still
\* has legal moves has returned the (nonzero) material score without a push.
C6_Witness ==
    /\ Done("minimax")
    /\ call.depth > 0
    /\ is_game_over(root)
    /\ legal_moves(root) # <<>>
    /\ ret = evaluate_board(root)
    /\ ret # 0
    /\ npush = 0 /\ ncalls = 1

\* C8 (evaluator symmetry): on every board the program holds,
\* evaluate_board is the weighted sum of the count differences with weights
\* 1, 3, 3, 5, 9, 0; exchanging the two sides' pieces negates it; equal
\* counts on both sides give 0.
C8_EvaluatorSymmetry ==
    LET score == evaluate_board(board)
    IN  /\ score = MaterialBalance(board)
        /\ evaluate_board(Mirror(board)) = 0 - score
        /\ (board.w = board.b) => score = 0

\* C8 witness: evaluate_board has been applied (depth-0 call) to a board
\* with unequal material and the mirrored board scores the negation.
C8_Witness ==
    /\ Done("minimax")
    /\ call.depth = 0
    /\ ret = evaluate_board(board)
    /\ ret > 0
    /\ board.w # board.b
    /\ evaluate_board(Mirror(board)) = 0 - ret

IsPrefix(s, t) == Len(s) <= Len(t) /\ SubSeq(t, 1, Len(s)) = s

\* C2 (stack balance): when a frame of minimax or get_best_move returns
\* normally, the board is the board the frame was entered with (pieces,
\* side to move and move stack) and the frame's pushes equal its pops, also
\* when it leaves its loop by break; every pop undoes the latest push that
\* is still open and gives back the board of the frame that pushed it.
C2_StackBalance ==
    [][ /\ ReturnStep =>
             /\ board = Top.entry
             /\ board' = Top.entry
             /\ npush' - Top.np = npop' - Top.nq
        /\ (npop' = npop + 1) =>
             /\ board' = Top.entry
             /\ board.move_stack = Append(Top.entry.move_stack, Top.moves[Top.i])
             /\ npush - Top.np = (npop - Top.nq) + 1
        /\ (npush' = npush + 1 /\ phase' = "running") =>
             /\ board = Top.entry
             /\ IsPrefix(board.move_stack, board'.move_stack)
      ]_vars

\* C2 witness: a minimax frame is about to leave its loop by break, with
\* moves left, after balanced pushes and pops, on the board it was entered with.
C2_Witness ==
    /\ Running("minimax", "check")
    /\ Cutoff(Top.alpha, Top.beta)
    /\ Top.i < Len(Top.moves)
    /\ npush - Top.np >= 2
    /\ npush - Top.np = npop - Top.nq
    /\ board = Top.entry

\* C3 (role at the root), as claimed: in every minimax frame reached from
\* get_best_move the maximizing flag is true exactly when White is to move
\* on the frame's board.
C3_RoleMatchesSideToMove ==
    call.fn = "get_best_move" =>
        \A k \in 1..Len(stack) :
            stack[k].fn = "minimax" =>
                (stack[k].maximizing_player <=> stack[k].entry.turn = WHITE)

AllAtMost(s, v) == \A j \in 1..Len(s) : s[j] <= v
AllAtLeast(s, v) == \A j \in 1..Len(s) : s[j] >= v

\* The first index whose score is the maximum (White to move) or the
\* minimum (Black to move) of the scores.
EarliestBest(s, turn) ==
    CHOOSE i \in 1..Len(s) :
        /\ IF turn = WHITE THEN AllAtMost(s, s[i]) ELSE AllAtLeast(s, s[i])
        /\ \A j \in 1..(i - 1) : s[j] # s[i]

\* C4 (best move and ties): get_best_move returns the earliest root move
\* whose searched score is the maximum (White to move at the root) or the
\* minimum (Black to move) of all root moves' searched scores; the best
\* move changes only when the new score is strictly better.
C4_EarliestBestMove ==
    [][ /\ (/\ Running("get_best_move", "loop")
            /\ Top.i > Len(Top.moves)
            /\ Top.moves # <<>>) =>
             /\ phase' = "done"
             /\ Len(Top.scores) = Len(legal_moves(root))
             /\ ret' = legal_moves(root)[EarliestBest(Top.scores, root.turn)]
        /\ (/\ Running("get_best_move", "called")
            /\ stack'[1].best_move # Top.best_move) =>
             /\ stack'[1].best_move = Top.moves[Top.i]
             /\ stack'[1].best = ret
             /\ IF root.turn = WHITE THEN ret > Top.best ELSE ret < Top.best
        /\ (/\ Running("get_best_move", "called")
            /\ ret = Top.best) =>
             stack'[1].best_move = Top.best_move
      ]_vars

\* C4 witness: get_best_move is about to return with two root moves tied
\* for the best score and at least one worse move.
C4_Witness ==
    /\ Running("get_best_move", "loop")
    /\ Top.i > Len(Top.moves)
    /\ \E i, j, k \in 1..Len(Top.scores) :
         /\ i < j
         /\ i = EarliestBest(Top.scores, root.turn)
         /\ Top.scores[j] = Top.scores[i]
         /\ Top.scores[k] # Top.scores[i]
    /\ Top.best_move = Top.moves[EarliestBest(Top.scores, root.turn)]

IsLegalAtRoot(move) == \E i \in 1..Len(legal_moves(root)) : legal_moves(root)[i] = move

\* C5 (None result): get_best_move returns None exactly when the root has
\* no legal move, otherwise one of the root's legal moves; with no legal
\* move it returns without any push and without any call of minimax.
C5_NoneOnlyWithoutMoves ==
    Done("get_best_move") =>
        /\ (ret = "None") <=> (legal_moves(root) = <<>>)
        /\ (ret # "None") => IsLegalAtRoot(ret)
        /\ (legal_moves(root) = <<>>) => (npush = 0 /\ npop = 0 /\ ncalls = 0)

\* C5 witness: get_best_move has returned None on a root without legal
\* moves, with no push and no call of minimax.
C5_Witness ==
    /\ Done("get_best_move")
    /\ ret = "None"
    /\ legal_moves(root) = <<>>
    /\ is_game_over(root)
    /\ npush = 0 /\ ncalls = 0

\* C7 (undo on error paths), as claimed: when a recursive call fails and
\* the error leaves minimax and get_best_move, every pushed move has been
\* popped and the caller sees the board it had before the call.
C7_PoppedOnError ==
    phase = "raised" => (board = root /\ npush = npop)

\* C9 (hard cutoff): a minimax frame that has folded a child's result and
\* finds beta <= alpha returns its running best in its next step, with no
\* further push or call, in either role; a call hands the caller's current
\* alpha and beta to the callee, and neither a call nor a return changes
\* the caller's alpha or beta; a fold changes only alpha (maximizing) or
\* only beta (minimizing) of the folding frame.
C9_HardCutoff ==
    [][ /\ (Running("minimax", "check") /\ Top.beta <= Top.alpha) =>
             /\ stack' = Front(stack)
             /\ ret' = Top.best
             /\ board' = board
             /\ npush' = npush /\ ncalls' = ncalls
        /\ (ReturnStep /\ Len(stack) >= 2) =>
             stack' = Front(stack)
        /\ (phase = "running" /\ Len(stack') = Len(stack) + 1 /\ Top.fn = "minimax") =>
             /\ stack'[Len(stack')].alpha = Top.alpha
             /\ stack'[Len(stack')].beta = Top.beta
             /\ stack'[Len(stack)].alpha = Top.alpha
             /\ stack'[Len(stack)].beta = Top.beta
             /\ Front(stack') = SetTop([Top EXCEPT !.pc = "called"])
        /\ Running("minimax", "called") =>
             /\ Front(stack') = Front(stack)
             /\ IF Top.maximizing_player
                THEN /\ stack'[Len(stack)].beta = Top.beta
                     /\ stack'[Len(stack)].alpha = Max(Top.alpha, ret)
                ELSE /\ stack'[Len(stack)].alpha = Top.alpha
                     /\ stack'[Len(stack)].beta = Min(Top.beta, ret)
      ]_vars

\* C9 witness: a minimizing frame below a maximizing caller has folded a
\* result, holds beta <= alpha and still has sibling moves left.
C9_Witness ==
    /\ Running("minimax", "check")
    /\ Top.beta <= Top.alpha
    /\ Top.i < Len(Top.moves)
    /\ ~Top.maximizing_player
    /\ Len(stack) >= 2
    /\ stack[Len(stack) - 1].fn = "minimax"
    /\ stack[Len(stack) - 1].alpha = Top.alpha

\* The same case in the maximizing branch.
C9_WitnessMaximizing ==
    /\ Running("minimax", "check")
    /\ Top.beta <= Top.alpha
    /\ Top.i < Len(Top.moves)
    /\ Top.maximizing_player

\* C10 (depth bounds the work), as claimed: during get_best_move(board,
\* depth), for every depth from 0 on, every minimax frame has depth >= 0
\* and at most max(depth, 1) pushed moves are open.
C10_DepthBoundsWork ==
    call.fn = "get_best_move" =>
        /\ \A k \in 1..Len(stack) : stack[k].fn = "minimax" => stack[k].depth >= 0
        /\ npush - npop <= Max(call.depth, 1)

\* What does hold: with depth >= 1 the minimax depths stay >= 0, at most
\* depth moves are open and no call fails.
DepthBoundsWorkFromOne ==
    (call.fn = "get_best_move" /\ call.depth >= 1) =>
        /\ \A k \in 1..Len(stack) : stack[k].fn = "minimax" => stack[k].depth >= 0
        /\ npush - npop <= call.depth
        /\ phase # "raised"

============================================================================
